---- MODULE Spec2Model ----
(***************************************************************************)
(* A model of boardgame-connector/bgg_plays.py: the BggPlays data object,  *)
(* its fetch_data parser and its four statistics queries.                  *)
(*                                                                         *)
(* Python values are modelled as follows.  A str that the code inspects    *)
(* character by character (a comment, a numeric attribute) is a sequence   *)
(* of one-character strings wrapped as [str |-> ...]; None is the record   *)
(* [none |-> TRUE]; a list is [list |-> <<...>>]; a dict is a function     *)
(* whose DOMAIN is the set of its keys.  A call returns [exc, val]: exc is *)
(* "none" when the call returns val, and the name of the Python exception  *)
(* it raises otherwise.                                                    *)
(***************************************************************************)
EXTENDS Integers, Sequences, FiniteSets, TLC

VARIABLES remote, data, ret, fetched

vars == <<remote, data, ret, fetched>>

-----------------------------------------------------------------------------
(* Python values *)

None == [none |-> TRUE]

PyStr(s) == [str |-> s]

PyList(l) == [list |-> l]

Ok(v) == [exc |-> "none", val |-> v]

Raise(e) == [exc |-> e, val |-> None]

\* dict[k] = v
Put(d, k, v) == (k :> v) @@ d

\* Python's `sub in s` on two str values: s has sub as a contiguous slice.
Contains(sub, s) ==
    \E i \in 0..(Len(s) - Len(sub)) : SubSeq(s, i + 1, i + Len(sub)) = sub

Digits == ("0" :> 0) @@ ("1" :> 1) @@ ("2" :> 2) @@ ("3" :> 3) @@ ("4" :> 4)
          @@ ("5" :> 5) @@ ("6" :> 6) @@ ("7" :> 7) @@ ("8" :> 8) @@ ("9" :> 9)

RECURSIVE DigitsValue(_)
DigitsValue(s) ==
    IF s = <<>> THEN 0
    ELSE DigitsValue(SubSeq(s, 1, Len(s) - 1)) * 10 + Digits[s[Len(s)]]

\* Python's int(a) for a str or None: an optional sign, then decimal digits.
PyInt(a) ==
    IF a = None THEN Raise("TypeError")
    ELSE LET s == a.str
             signed == s # <<>> /\ s[1] \in {"-", "+"}
             body == IF signed THEN Tail(s) ELSE s
         IN IF body = <<>> \/ \E i \in 1..Len(body) : body[i] \notin DOMAIN Digits
            THEN Raise("ValueError")
            ELSE Ok(IF signed /\ s[1] = "-" THEN 0 - DigitsValue(body)
                    ELSE DigitsValue(body))

\* The ISO-8601 date strings of the model and the calendar dates they denote;
\* any other string is not a valid date.
IsoDates == ("2018-06-22" :> <<2018, 6, 22>>) @@ ("2018-06-21" :> <<2018, 6, 21>>)

\* datetime.fromisoformat(a)
fromisoformat(a) ==
    IF a = None THEN Raise("TypeError")
    ELSE IF a.str \in DOMAIN IsoDates THEN Ok(IsoDates[a.str])
    ELSE Raise("ValueError")

-----------------------------------------------------------------------------
(* lxml elements: a record with the fields tag, text (a str or None) and   *)
(* children (a sequence of elements), and one more field per XML attribute *)
(* the element carries.                                                    *)

\* element.get(k): the attribute's value, None when the element has none
Get(el, k) == IF k \in DOMAIN el THEN PyStr(el[k]) ELSE None

WON_TEXT == <<"W", "o", "n">>

LOST_TEXT == <<"L", "o", "s", "t">>

num_games == 10

\* BggPlays.request_data: a non-200 status is logged and nothing more; the
\* content is parsed whatever the status, and etree.fromstring raises on
\* content that is not well-formed XML (a response without `root`).
request_data(response) ==
    IF "root" \in DOMAIN response
    THEN [exc |-> "none", val |-> response.root,
          logged_error |-> response.status_code # 200]
    ELSE [exc |-> "XMLSyntaxError", val |-> None,
          logged_error |-> response.status_code # 200]

\* fetch_data, lines 50-56: the loop over the children of one play node,
\* from child i on, filling the dict `play`.
RECURSIVE parse_children(_, _, _)
parse_children(xml_play, i, play) ==
    IF i > Len(xml_play.children) THEN Ok(play)
    ELSE LET xml_play_child == xml_play.children[i] IN
         IF xml_play_child.tag = "item"
         THEN LET game_id == PyInt(Get(xml_play_child, "objectid")) IN
              IF game_id.exc # "none" THEN Raise(game_id.exc)
              ELSE parse_children(xml_play, i + 1,
                       Put(Put(play, "game_id", game_id.val),
                           "game_name", Get(xml_play_child, "name")))
         ELSE IF xml_play_child.tag = "comments"
         THEN IF Len(xml_play.children) < 2 THEN Raise("IndexError")
              ELSE parse_children(xml_play, i + 1,
                       Put(play, "comment", xml_play.children[2].text))
         ELSE parse_children(xml_play, i + 1, play)

\* fetch_data, lines 47-58: one play node to one play dict.
parse_play(xml_play) ==
    LET date == fromisoformat(Get(xml_play, "date")) IN
    IF date.exc # "none" THEN Raise(date.exc)
    ELSE LET play == parse_children(xml_play, 1, "date" :> date.val) IN
         IF play.exc # "none" THEN play
         ELSE LET length == PyInt(Get(xml_play, "length")) IN
              IF length.exc # "none" THEN Raise(length.exc)
              ELSE Ok(Put(play.val, "length", length.val))

\* fetch_data, lines 44-61: the loop over the play nodes, from node i on.
RECURSIVE parse_plays(_, _, _)
parse_plays(xml_root, i, plays) ==
    IF i > Len(xml_root.children) THEN Ok(plays)
    ELSE LET play == parse_play(xml_root.children[i]) IN
         IF play.exc # "none" THEN play
         ELSE parse_plays(xml_root, i + 1, Append(plays, play.val))

-----------------------------------------------------------------------------
(* The statistics queries.  Each returns [exc, val, reqs]: reqs is the      *)
(* number of remote requests the call has made.                             *)

Min(S) == CHOOSE x \in S : \A y \in S : x <= y

\* BggPlays._get_thumbnail: one request to the `thing` endpoint; the text of
\* the first thumbnail node under the first child of the root, None (the
\* function falls off its end) when there is none.
get_thumbnail(things, game_id) ==
    LET xml_root == request_data(things[game_id]) IN
    IF xml_root.exc # "none" THEN Raise(xml_root.exc)
    ELSE IF xml_root.val.children = <<>> THEN Raise("IndexError")
    ELSE LET nodes == xml_root.val.children[1].children
             hits == {i \in 1..Len(nodes) : nodes[i].tag = "thumbnail"}
         IN IF hits = {} THEN Ok(None) ELSE Ok(nodes[Min(hits)].text)

\* latest_played_games, lines 79-84: the list comprehension over the plays,
\* from play i on; acc holds the dicts built so far.
RECURSIVE latest_items(_, _, _, _)
latest_items(plays, things, i, acc) ==
    IF i > Len(plays) THEN [exc |-> "none", val |-> acc, reqs |-> i - 1]
    ELSE LET play == plays[i] IN
         IF "game_name" \notin DOMAIN play
         THEN [exc |-> "KeyError", val |-> None, reqs |-> i - 1]
         ELSE LET thumbnail == get_thumbnail(things, play["game_id"]) IN
              IF thumbnail.exc # "none"
              THEN [exc |-> thumbnail.exc, val |-> None, reqs |-> i]
              ELSE latest_items(plays, things, i + 1,
                       Append(acc, [name |-> play["game_name"],
                                    date |-> play["date"],
                                    thumbnail |-> thumbnail.val]))

\* BggPlays.latest_played_games
latest_played_games(d, things) ==
    IF d = None THEN [exc |-> "Exception", val |-> None, reqs |-> 0]
    ELSE latest_items(SubSeq(d.list, 1, Min({num_games, Len(d.list)})),
                      things, 1, <<>>)

\* `'comment' in play and TEXT in play['comment']` for every play of the
\* list: the indices that pass, or a TypeError when a comment that is
\* present is None (`in` needs an iterable on its right).
marked(plays, text) ==
    IF \E i \in 1..Len(plays) :
           "comment" \in DOMAIN plays[i] /\ plays[i]["comment"] = None
    THEN Raise("TypeError")
    ELSE Ok({i \in 1..Len(plays) :
                "comment" \in DOMAIN plays[i]
                /\ Contains(text, plays[i]["comment"].str)})

\* a slip in the percentage: wins per loss instead of wins per game
win_percentage_per_loss(wins, losses) ==
    IF losses = 0 THEN wins * 100 ELSE (wins * 100) \div losses

\* cooperative_game_statistics, lines 100-102: int((wins / (wins + losses)) * 100).
\* The float quotient and product truncate to the exact integer quotient for
\* every wins + losses below 50 (the first difference is 29 wins in 50).
win_percentage(wins, losses) == (wins * 100) \div (wins + losses)

\* BggPlays.cooperative_game_statistics; tally holds the locals wins and
\* losses once lines 98-99 have computed them.
cooperative_game_statistics(d) ==
    IF d = None
    THEN [exc |-> "Exception", val |-> None, reqs |-> 0, tally |-> <<>>]
    ELSE LET won == marked(d.list, WON_TEXT)
             lost == marked(d.list, LOST_TEXT)
         IN IF won.exc # "none"
            THEN [exc |-> won.exc, val |-> None, reqs |-> 0, tally |-> <<>>]
            ELSE LET wins == Cardinality(won.val)
                     losses == Cardinality(lost.val)
                 IN IF wins + losses = 0
                    THEN [exc |-> "ZeroDivisionError", val |-> None, reqs |-> 0,
                          tally |-> <<wins, losses>>]
                    ELSE [exc |-> "none",
                          val |-> [wins |-> wins, losses |-> losses,
                                   win_percentage |-> win_percentage(wins, losses)],
                          reqs |-> 0, tally |-> <<wins, losses>>]

\* game_info_by_id, line 113: next(g for g in self.data if g['game_id'] == game_id)
\* over a list: the first match, a KeyError at a play without 'game_id' that
\* comes before any match, StopIteration when the list is exhausted.
first_match(plays, game_id) ==
    LET stops == {i \in 1..Len(plays) :
                     "game_id" \notin DOMAIN plays[i]
                     \/ plays[i]["game_id"] = game_id}
    IN IF stops = {} THEN Raise("StopIteration")
       ELSE IF "game_id" \notin DOMAIN plays[Min(stops)] THEN Raise("KeyError")
       ELSE Ok(plays[Min(stops)])

\* BggPlays.game_info_by_id: there is no `self.data is None` test here, so
\* iterating None raises a TypeError.
game_info_by_id(d, things, game_id) ==
    IF d = None THEN [exc |-> "TypeError", val |-> None, reqs |-> 0]
    ELSE LET play == first_match(d.list, game_id) IN
         IF play.exc # "none" THEN [exc |-> play.exc, val |-> None, reqs |-> 0]
         ELSE LET thumbnail == get_thumbnail(things, play.val["game_id"]) IN
              IF thumbnail.exc # "none"
              THEN [exc |-> thumbnail.exc, val |-> None, reqs |-> 1]
              ELSE [exc |-> "none",
                    val |-> [name |-> play.val["game_name"],
                             thumbnail |-> thumbnail.val],
                    reqs |-> 1]

\* sorted(plays, key=lambda k: k['game_id']): a stable sort, as an insertion
\* of each play after the plays whose key is not greater.
RECURSIVE sorted_by_game_id(_)
sorted_by_game_id(plays) ==
    IF plays = <<>> THEN <<>>
    ELSE LET init == sorted_by_game_id(SubSeq(plays, 1, Len(plays) - 1))
             x == plays[Len(plays)]
             k == Cardinality({j \in 1..Len(init) :
                                  init[j]["game_id"] <= x["game_id"]})
         IN SubSeq(init, 1, k) \o <<x>> \o SubSeq(init, k + 1, Len(init))

\* most_played_game, lines 128-133: groupby over the sorted plays puts each
\* run of equal keys in one group; summed holds (key, sum of lengths).
RECURSIVE summed_groups(_, _, _)
summed_groups(plays, i, summed) ==
    IF i > Len(plays) THEN summed
    ELSE LET n == Len(summed) IN
         IF n > 0 /\ summed[n][1] = plays[i]["game_id"]
         THEN summed_groups(plays, i + 1,
                  [summed EXCEPT ![n] = <<summed[n][1],
                                          summed[n][2] + plays[i]["length"]>>])
         ELSE summed_groups(plays, i + 1,
                  Append(summed, <<plays[i]["game_id"], plays[i]["length"]>>))

\* max(summed, key=lambda k: k[1]): the first of the elements with the
\* greatest sum.
max_by_sum(summed) ==
    summed[Min({i \in 1..Len(summed) :
                   \A j \in 1..Len(summed) : summed[j][2] <= summed[i][2]})]

\* BggPlays.most_played_game
most_played_game(d, things) ==
    IF d = None THEN [exc |-> "Exception", val |-> None, reqs |-> 0]
    ELSE IF \E i \in 1..Len(d.list) : "game_id" \notin DOMAIN d.list[i]
    THEN [exc |-> "KeyError", val |-> None, reqs |-> 0]
    ELSE LET summed == summed_groups(sorted_by_game_id(d.list), 1, <<>>) IN
         IF summed = <<>> THEN [exc |-> "ValueError", val |-> None, reqs |-> 0]
         ELSE LET most_played == max_by_sum(summed)
                  game == game_info_by_id(d, things, most_played[1])
              IN IF game.exc # "none" THEN game
                 ELSE [exc |-> "none",
                       val |-> Put(game.val, "time", most_played[2]),
                       reqs |-> game.reqs]

-----------------------------------------------------------------------------
(* The remote API: what requests.get returns for the `plays` URI (one      *)
(* response) and for the `thing` URI (one response per game id).           *)

MaxPlays == 3

GameIds == {1, 2}

Element(tag, text, children) == [tag |-> tag, text |-> text, children |-> children]

\* <item name=... objecttype="thing" objectid=.../>
Item(objectid, name) == [objectid |-> objectid, name |-> name] @@ Element("item", None, <<>>)

\* <comments>text</comments>; <comments/> has the text None
Comments(text) == Element("comments", text, <<>>)

\* <players>...</players>, a third kind of child that BGG sends
Players == Element("players", None, <<>>)

\* <play date=... length=...>children</play>; attrs holds the attributes
PlayNode(attrs, children) == attrs @@ Element("play", None, children)

PlaysRoot(nodes) == Element("plays", None, nodes)

Response(status_code, root) == [status_code |-> status_code, root |-> root]

\* a response whose content is not well-formed XML
BadContent(status_code) == [status_code |-> status_code]

ThingRoot(url) ==
    Element("items", None,
            <<Element("item", None,
                      <<Element("name", None, <<>>),
                        Element("thumbnail", PyStr(url), <<>>)>>)>>)

\* a thing without a thumbnail node
ThingNoThumbnail ==
    Element("items", None, <<Element("item", None, <<Element("name", None, <<>>)>>)>>)

\* an unknown id: <items/>
ThingEmpty == Element("items", None, <<>>)

Things == [id \in GameIds \cup {3} |->
              Response(200, IF id = 1 THEN ThingRoot("//cf.geekdo-images.com/1.jpg")
                            ELSE IF id = 2 THEN ThingNoThumbnail
                            ELSE ThingEmpty)]

\* later answers: the thumbnail of game 1 has been replaced, and the lookup
\* of game 2 is answered with an error page
ThingsLater == [Things EXCEPT
                   ![1] = Response(200, ThingRoot("//cf.geekdo-images.com/1b.jpg")),
                   ![2] = BadContent(500)]

ThingStates == {Things, ThingsLater}

RECURSIVE SeqsUpTo(_, _)
SeqsUpTo(S, n) ==
    IF n = 0 THEN {<<>>}
    ELSE LET shorter == SeqsUpTo(S, n - 1) IN
         shorter \cup {Append(q, x) : q \in {r \in shorter : Len(r) = n - 1}, x \in S}

Str_Won == <<"W", "o", "n">>

Str_WonTheGame == <<"W", "o", "n", " ", "t", "h", "e", " ", "g", "a", "m", "e">>

Str_LostBadly == <<"L", "o", "s", "t", " ", "b", "a", "d", "l", "y">>

Str_WonAgain == <<"W", "o", "n", " ", "a", "g", "a", "i", "n">>

Str_WonThenLost == <<"W", "o", "n", ",", " ", "L", "o", "s", "t">>

Str_won == <<"w", "o", "n">>

Day1 == "2018-06-22"

Day2 == "2018-06-21"

\* The play nodes of the general family: the shapes of a play node that
\* fetch_data tells apart.
GeneralNodes ==
    { PlayNode([date |-> Day1, length |-> <<"3", "0">>],
               <<Item(<<"1">>, "Azul"), Comments(PyStr(Str_WonTheGame))>>),
      PlayNode([date |-> Day2, length |-> <<"1", "0">>],
               <<Item(<<"2">>, "Brass"), Players, Comments(PyStr(Str_LostBadly))>>),
      PlayNode([date |-> Day2, length |-> <<"2", "0">>],
               <<Comments(PyStr(Str_WonAgain)), Item(<<"1">>, "Azul")>>),
      PlayNode([date |-> Day1, length |-> <<"-", "5">>],
               <<Item(<<"2">>, "Brass")>>),
      PlayNode([date |-> Day1, length |-> <<"0">>], <<Players>>),
      PlayNode([date |-> Day1], <<Item(<<"1">>, "Azul")>>),
      PlayNode([date |-> Day2, length |-> <<"2", "0">>],
               <<Comments(PyStr(Str_Won))>>) }

\* The play nodes of the cooperative family: a game and, second, a comment
\* (or none), as BGG sends them.
CoopNodes ==
    { PlayNode([date |-> Day1, length |-> <<"3", "0">>],
               <<Item(<<"1">>, "Azul")>> \o c) :
        c \in {<<>>, <<Comments(None)>>}
               \cup {<<Comments(PyStr(t))>> :
                        t \in {Str_WonTheGame, Str_LostBadly,
                               Str_WonThenLost, Str_won}} }

CoopResponses == {Response(200, PlaysRoot(nodes)) : nodes \in SeqsUpTo(CoopNodes, MaxPlays)}

GeneralResponses ==
    {Response(s, PlaysRoot(nodes)) :
        s \in {200, 500}, nodes \in SeqsUpTo(GeneralNodes, MaxPlays)}
    \cup {BadContent(200), BadContent(500)}

-----------------------------------------------------------------------------
(* The state machine *)

NoCall == [op |-> "none", args |-> <<>>, exc |-> "none", val |-> None,
           reqs |-> 0, tally |-> <<>>, logged_error |-> FALSE]

Call(op, args, r) == [op |-> op, args |-> args, exc |-> r.exc, val |-> r.val,
                      reqs |-> r.reqs, tally |-> <<>>, logged_error |-> FALSE]

TypeOK == /\ "status_code" \in DOMAIN remote.plays
          /\ data = None \/ "list" \in DOMAIN data

Init == /\ remote \in {[plays |-> p, thing |-> t] :
                          p \in GeneralResponses, t \in ThingStates}
        /\ data = None
        /\ ret = NoCall
        /\ fetched = None

\* BggPlays.__init__ (server.get_root makes one instance per request)
New == /\ data' = None
       /\ fetched' = None
       /\ ret' = [NoCall EXCEPT !.op = "__init__"]
       /\ UNCHANGED remote

\* a slip in fetch_data: the plays are appended to self.data as they are
\* parsed, so that earlier plays survive and a failing parse leaves a part
fetch_data_in_place(d, response) ==
    LET xml_root == request_data(response)
        old == IF d = None THEN <<>> ELSE d.list
    IN IF xml_root.exc # "none"
       THEN [exc |-> xml_root.exc, data |-> d, logged_error |-> xml_root.logged_error]
       ELSE LET plays == parse_plays(xml_root.val, 1, old) IN
            [exc |-> plays.exc,
             data |-> IF plays.exc = "none" THEN PyList(plays.val) ELSE d,
             logged_error |-> xml_root.logged_error]

\* BggPlays.fetch_data: self.data is assigned only after every play node
\* has been parsed.
fetch_data(d, response) ==
    LET xml_root == request_data(response) IN
    IF xml_root.exc # "none"
    THEN [exc |-> xml_root.exc, data |-> d, logged_error |-> xml_root.logged_error]
    ELSE LET plays == parse_plays(xml_root.val, 1, <<>>) IN
         IF plays.exc # "none"
         THEN [exc |-> plays.exc, data |-> d, logged_error |-> xml_root.logged_error]
         ELSE [exc |-> "none", data |-> PyList(plays.val),
               logged_error |-> xml_root.logged_error]

FetchData ==
    LET r == fetch_data(data, remote.plays) IN
    /\ data' = r.data
    /\ fetched' = IF r.exc = "none"
                  THEN [root |-> remote.plays.root, thing |-> remote.thing]
                  ELSE fetched
    /\ ret' = [op |-> "fetch_data", args |-> <<>>, exc |-> r.exc, val |-> None,
               reqs |-> 1, tally |-> <<>>, logged_error |-> r.logged_error]
    /\ UNCHANGED remote

LatestPlayedGames ==
    /\ ret' = Call("latest_played_games", <<>>, latest_played_games(data, remote.thing))
    /\ UNCHANGED <<remote, data, fetched>>

CooperativeGameStatistics ==
    LET r == cooperative_game_statistics(data) IN
    /\ ret' = [Call("cooperative_game_statistics", <<>>, r) EXCEPT !.tally = r.tally]
    /\ UNCHANGED <<remote, data, fetched>>

GameInfoById ==
    \E game_id \in GameIds \cup {3} :
        /\ ret' = Call("game_info_by_id", <<game_id>>,
                       game_info_by_id(data, remote.thing, game_id))
        /\ UNCHANGED <<remote, data, fetched>>

MostPlayedGame ==
    /\ ret' = Call("most_played_game", <<>>, most_played_game(data, remote.thing))
    /\ UNCHANGED <<remote, data, fetched>>

\* the plays the user may log while the program runs: a well-formed one, and
\* one whose length attribute is missing
LoggedNodes ==
    { PlayNode([date |-> Day1, length |-> <<"3", "0">>],
               <<Item(<<"1">>, "Azul"), Comments(PyStr(Str_WonTheGame))>>),
      PlayNode([date |-> Day1], <<Item(<<"1">>, "Azul")>>) }

\* the user logs a play: the remote API lists the most recent play first
RemoteLogsPlay ==
    /\ "root" \in DOMAIN remote.plays
    /\ Len(remote.plays.root.children) < MaxPlays
    /\ \E node \in LoggedNodes :
          remote' = [remote EXCEPT !.plays.root.children = <<node>> \o @]
    /\ UNCHANGED <<data, ret, fetched>>

\* the thing endpoint changes its answers
RemoteThingChanges ==
    /\ \E t \in ThingStates \ {remote.thing} : remote' = [remote EXCEPT !.thing = t]
    /\ UNCHANGED <<data, ret, fetched>>

Next == \/ New
        \/ FetchData
        \/ LatestPlayedGames
        \/ CooperativeGameStatistics
        \/ GameInfoById
        \/ MostPlayedGame
        \/ RemoteLogsPlay
        \/ RemoteThingChanges

Spec == Init /\ [][Next]_vars

InitCoop == /\ remote \in {[plays |-> p, thing |-> Things] : p \in CoopResponses}
            /\ data = None
            /\ ret = NoCall
            /\ fetched = None

SpecCoop == InitCoop /\ [][Next]_vars

-----------------------------------------------------------------------------
(* What the claims speak of, stated over the stored sequence independently *)
(* of the code's own computation.                                          *)

StatisticsOps == {"latest_played_games", "cooperative_game_statistics",
                  "game_info_by_id", "most_played_game"}

HasGame(play) == "game_id" \in DOMAIN play

\* the game ids that occur in the records
GamesPlayed(plays) ==
    {plays[i]["game_id"] : i \in {j \in 1..Len(plays) : HasGame(plays[j])}}

\* the summed length of the records of one game
RECURSIVE TotalMinutes(_, _)
TotalMinutes(plays, id) ==
    IF plays = <<>> THEN 0
    ELSE (IF HasGame(Head(plays)) /\ Head(plays)["game_id"] = id
          THEN Head(plays)["length"] ELSE 0)
         + TotalMinutes(Tail(plays), id)

\* the smallest of the game ids with the greatest total
MostMinutes(plays) ==
    Min({id \in GamesPlayed(plays) :
            \A other \in GamesPlayed(plays) :
                TotalMinutes(plays, other) <= TotalMinutes(plays, id)})

\* the first record, in sequence order, of a game
FirstRecordOf(plays, id) ==
    plays[Min({i \in 1..Len(plays) : HasGame(plays[i]) /\ plays[i]["game_id"] = id})]

\* the exceptions of a failed thumbnail lookup (request_data on unparsable
\* content, xml_root[0] on a document without items); no statement of a query
\* outside _get_thumbnail raises them
LookupFailures == {"XMLSyntaxError", "IndexError"}

\* the number of records whose comment is a text that contains the marker
CommentsWith(plays, text) ==
    Cardinality({i \in 1..Len(plays) :
                    /\ "comment" \in DOMAIN plays[i]
                    /\ plays[i]["comment"] # None
                    /\ Contains(text, plays[i]["comment"].str)})

\* no record has a comment that is not a text, and no comment has a marker
Unmarked(plays) ==
    \A i \in 1..Len(plays) :
        \/ "comment" \notin DOMAIN plays[i]
        \/ /\ plays[i]["comment"] # None
           /\ ~Contains(WON_TEXT, plays[i]["comment"].str)
           /\ ~Contains(LOST_TEXT, plays[i]["comment"].str)

\* the comment child nodes of a play node, by position
CommentNodes(xml_play) ==
    {i \in 1..Len(xml_play.children) : xml_play.children[i].tag = "comments"}

-----------------------------------------------------------------------------
(* The claims *)

\* C1: for a non-empty fetched sequence most_played_game returns the game
\* with the greatest summed length (the smallest game id among equals), that
\* sum as 'time', and the game_name of the first record with that game id
\* (a call whose thumbnail lookup fails is left aside).
C1_MostPlayedIsMaximum ==
    (/\ ret.op = "most_played_game"
     /\ data # None
     /\ data.list # <<>>
     /\ ret.exc \notin LookupFailures) =>
        /\ GamesPlayed(data.list) # {}
        /\ ret.exc = "none"
        /\ ret.val["time"] = TotalMinutes(data.list, MostMinutes(data.list))
        /\ ret.val["name"] =
              FirstRecordOf(data.list, MostMinutes(data.list))["game_name"]

\* C2: for a fetched sequence with a marked comment, cooperative_game_statistics
\* returns wins and losses equal to the numbers of records whose comment
\* contains "Won" and "Lost" (a record with neither or without a comment adds
\* to neither, one with both adds to both) and the truncated percentage.
C2_CooperativeTallies ==
    (ret.op = "cooperative_game_statistics" /\ data # None) =>
        LET wins == CommentsWith(data.list, WON_TEXT)
            losses == CommentsWith(data.list, LOST_TEXT)
        IN wins + losses > 0 =>
              /\ ret.exc = "none"
              /\ ret.val = [wins |-> wins, losses |-> losses,
                            win_percentage |-> (wins * 100) \div (wins + losses)]

C4_NotYetFetched ==
    ret.op \in StatisticsOps =>
        /\ data = None => (ret.exc = "Exception" /\ ret.reqs = 0)
        /\ data # None => ret.exc # "Exception"

\* C5: on a fetched sequence game_info_by_id returns the name of the first
\* record with the game id when there is one, and raises the not-found
\* condition (StopIteration) when there is none (a call whose thumbnail
\* lookup fails is left aside).
C5_GameByIdFirstOrNotFound ==
    (/\ ret.op = "game_info_by_id"
     /\ data # None
     /\ ret.exc \notin LookupFailures) =>
        LET game_id == ret.args[1] IN
        IF game_id \in GamesPlayed(data.list)
        THEN /\ ret.exc = "none"
             /\ ret.val.name = FirstRecordOf(data.list, game_id)["game_name"]
        ELSE ret.exc = "StopIteration"

\* C6: for every n, latest_played_games returns exactly min(n, L) elements of
\* a fetched sequence of length L, element i with the name and date of
\* record i (a call whose thumbnail lookup fails is left aside).
C6_LatestIsFirstN ==
    (/\ ret.op = "latest_played_games"
     /\ data # None
     /\ ret.exc \notin LookupFailures) =>
        \A n \in {2, num_games} :
            /\ ret.exc = "none"
            /\ Len(ret.val) = Min({n, Len(data.list)})
            /\ \A i \in 1..Len(ret.val) :
                  /\ ret.val[i].name = data.list[i]["game_name"]
                  /\ ret.val[i].date = data.list[i]["date"]

\* C7: a fetch whose response has a status other than 200 fails.
C7_FetchFailsOnNon200 ==
    (ret.op = "fetch_data" /\ remote.plays.status_code # 200) => ret.exc # "none"

\* the result of a query on the stored sequence d under the thing responses
QueryResult(op, args, d, things) ==
    CASE op = "latest_played_games" -> latest_played_games(d, things)
      [] op = "cooperative_game_statistics" ->
            [exc |-> cooperative_game_statistics(d).exc,
             val |-> cooperative_game_statistics(d).val]
      [] op = "game_info_by_id" -> game_info_by_id(d, things, args[1])
      [] op = "most_played_game" -> most_played_game(d, things)

\* a returned value without its thumbnails
Statistics(op, val) ==
    CASE op = "latest_played_games" ->
            [i \in 1..Len(val) |-> <<val[i].name, val[i].date>>]
      [] op = "cooperative_game_statistics" ->
            <<val.wins, val.losses, val.win_percentage>>
      [] op = "game_info_by_id" -> <<val["name"]>>
      [] op = "most_played_game" -> <<val["name"], val["time"]>>

\* the stored sequence is exactly the parse of the response of the most
\* recent completed fetch
DataIsLastCompletedFetch ==
    /\ data = None <=> fetched = None
    /\ data # None =>
          /\ parse_plays(fetched.root, 1, <<>>).exc = "none"
          /\ data = PyList(parse_plays(fetched.root, 1, <<>>).val)

\* C8 as stated: the stored sequence is exactly the parse of the response of
\* the most recent completed fetch, whatever was stored before and whatever
\* fetch has failed or query has run since, and the result of every query is
\* the result determined by the remote data as of that fetch (a query whose
\* thumbnail lookup fails, then or now, is left aside).
C8_ResultFromLastFetchOnly ==
    /\ DataIsLastCompletedFetch
    /\ (ret.op \in StatisticsOps /\ fetched # None) =>
          LET r == QueryResult(ret.op, ret.args,
                               PyList(parse_plays(fetched.root, 1, <<>>).val),
                               fetched.thing)
          IN /\ (ret.exc \notin LookupFailures /\ r.exc \notin LookupFailures) =>
                   ret.exc = r.exc
             /\ (ret.exc = "none" /\ r.exc = "none") => ret.val = r.val

\* C8 as amended: the stored sequence is exactly the parse of the response of
\* the most recent completed fetch, and every query fails or returns as that
\* sequence alone determines, with the statistics it determines, except that
\* the thumbnails are what the thing endpoint answers at the time of the
\* query and that a query fails when a lookup does.
C8_StatisticsFromLastFetch ==
    /\ DataIsLastCompletedFetch
    /\ (ret.op \in StatisticsOps /\ fetched # None) =>
          LET r == QueryResult(ret.op, ret.args,
                               PyList(parse_plays(fetched.root, 1, <<>>).val),
                               Things)
          IN ret.exc \notin LookupFailures =>
                /\ ret.exc = r.exc
                /\ r.exc = "none" =>
                      Statistics(ret.op, ret.val) = Statistics(ret.op, r.val)

\* C8 witness: a fetch has raised while parsing a later response (a play
\* without a length), and the sequence of the earlier fetch is still stored
C8_Witness ==
    /\ ret.op = "fetch_data"
    /\ ret.exc = "TypeError"
    /\ data # None
    /\ data.list # <<>>
    /\ remote.plays.root # fetched.root

\* C9: every record of a stored sequence has a game_id, a game_name and a
\* length that is not negative.
C9_RecordInvariant ==
    data # None =>
        \A i \in 1..Len(data.list) :
            /\ "game_id" \in DOMAIN data.list[i]
            /\ "game_name" \in DOMAIN data.list[i]
            /\ data.list[i]["length"] >= 0

\* C10: the stored sequence has one record per play node of the fetched
\* response, in order, and a record's comment is the text of the play's own
\* comments node, absent exactly when the play has none.
C10_CommentIsOwnCommentNode ==
    data # None =>
        /\ Len(data.list) = Len(fetched.root.children)
        /\ \A i \in 1..Len(data.list) :
              LET xml_play == fetched.root.children[i]
                  own == CommentNodes(xml_play)
              IN /\ "comment" \in DOMAIN data.list[i] <=> own # {}
                 /\ own # {} =>
                       data.list[i]["comment"] = xml_play.children[Min(own)].text

-----------------------------------------------------------------------------
(* What does hold of the queries: C1, C2, C5 and C6 on the stored sequences *)
(* that the faults found above leave well-formed.                           *)

EveryRecordHasGame == \A i \in 1..Len(data.list) : HasGame(data.list[i])

EveryCommentIsText ==
    \A i \in 1..Len(data.list) :
        "comment" \in DOMAIN data.list[i] => data.list[i]["comment"] # None

\* C1 where every stored record has a game: the greatest total, the smallest
\* id among equal totals, the name of the first record.
C1_OnRecordsWithGame ==
    (data # None /\ EveryRecordHasGame) => C1_MostPlayedIsMaximum

\* C2 where every stored comment is a text.
C2_OnTextComments ==
    (data # None /\ EveryCommentIsText) => C2_CooperativeTallies

\* C5 where every stored record has a game.
C5_OnRecordsWithGame ==
    (data # None /\ EveryRecordHasGame) => C5_GameByIdFirstOrNotFound

\* C6 with n fixed at num_games, where every stored record has a game.
C6_FirstTenOnRecordsWithGame ==
    (/\ ret.op = "latest_played_games"
     /\ data # None
     /\ EveryRecordHasGame
     /\ ret.exc \notin LookupFailures) =>
        /\ ret.exc = "none"
        /\ Len(ret.val) = Min({num_games, Len(data.list)})
        /\ \A i \in 1..Len(ret.val) :
              /\ ret.val[i].name = data.list[i]["game_name"]
              /\ ret.val[i].date = data.list[i]["date"]

====
